---- MODULE Spec2Model ----
(***************************************************************************)
(* Model of multiqc/modules/vcpipe/vcpipe.py: the MultiqcModule            *)
(* constructor loop over the discovered log files, parse_log and the three *)
(* section parsers, the end-of-run output block, and region_cat.           *)
(*                                                                         *)
(* Python dicts are TLA+ functions (the key set is the DOMAIN), JSON       *)
(* values are tagged records so that null, arrays and objects can be told  *)
(* apart, and strings that the code searches (the file's root path) are    *)
(* sequences of one-character strings.                                     *)
(***************************************************************************)
EXTENDS Integers, Sequences, FiniteSets, TLC

VARIABLES self, f, n, idx, pc, log, data_sources, outputs, call, prev

vars == <<self, f, n, idx, pc, log, data_sources, outputs, call, prev>>

(***************************************************************************)
(* Bounds of the model.                                                    *)
(***************************************************************************)
\* files the discovery generator yields in one run
MaxFiles == 2
\* pieces a probed path is built from (SpecPath)
MaxPieces == 6
\* coordinates probed by SpecRegion: MinCoord..MaxStart and MinCoord..MaxStop
MinCoord == 3
MaxStart == 3
MaxStop == 104
\* failed regions in a probed LowCoverageRegions section (SpecLowCov)
MaxRegions == 3

(***************************************************************************)
(* Python / JSON values.                                                   *)
(***************************************************************************)
None == [json |-> "null"]

EmptyDict == <<>>

Array(items) == [json |-> "array", items |-> items]

\* dict.get(k): the value, or None when the key is absent
Get(d, k) == IF k \in DOMAIN d THEN d[k] ELSE None

\* an assignment that lands in every entry of the dict
DictSet_all(d, k, v) == [x \in (DOMAIN d) \cup {k} |-> v]

\* d[k] = v
DictSet(d, k, v) == [x \in (DOMAIN d) \cup {k} |-> IF x = k THEN v ELSE d[x]]

\* len(d)
DictLen(d) == Cardinality(DOMAIN d)

Range(s) == {s[i] : i \in DOMAIN s}

\* the items as a set: each distinct item mapped to 1
Counter_set(items) == [k \in Range(items) |-> 1]

\* dict(Counter(items)): each distinct item mapped to its number of occurrences
Counter(items) ==
    [k \in Range(items) |-> Cardinality({i \in DOMAIN items : items[i] = k})]

(***************************************************************************)
(* region_cat                                                              *)
(***************************************************************************)
\* region_cat with the span taken as end - start
region_cat_exclusive(start, end) ==
    LET delta == end - start
    IN  IF delta < 10 THEN "<10"
        ELSE IF delta < 20 THEN "10-19"
        ELSE IF delta < 30 THEN "20-29"
        ELSE IF delta < 50 THEN "30-49"
        ELSE IF delta < 100 THEN "50-99"
        ELSE "100+"

\* the coordinates are JSON integers, on which int() returns its argument
region_cat(start, end) ==
    LET delta == end - start + 1
    IN  IF delta < 10 THEN "<10"
        ELSE IF delta < 20 THEN "10-19"
        ELSE IF delta < 30 THEN "20-29"
        ELSE IF delta < 50 THEN "30-49"
        ELSE IF delta < 100 THEN "50-99"
        ELSE "100+"

(***************************************************************************)
(* Logging: the records emitted through the module-level logger.  The      *)
(* variable log holds the records of the latest loop iteration.            *)
(***************************************************************************)
Msg(level, text, about) == [level |-> level, text |-> text, about |-> about]

Emit(w, level, text, about) ==
    [w EXCEPT !.log = Append(@, Msg(level, text, about))]

(***************************************************************************)
(* The section parsers.  w is the pair of the module instance (w.self)     *)
(* and the log (w.log); each parser returns the new pair, its return value *)
(* and the exception it raised ("" when it returned): data.copy() and      *)
(* data.get() raise AttributeError when data is not a dict, after the      *)
(* header and the row have been written.                                   *)
(***************************************************************************)
\* a decoded JSON value is a dict (null and arrays are tagged records)
IsDict(v) == "json" \notin DOMAIN v

\* the header assignment without its membership test: the column is appended again
HeaderAdd_dup(header, col, title) ==
    Append(header, [col |-> col, title |-> title])

HeaderAdd(header, col, title) ==
    IF \E i \in DOMAIN header : header[i].col = col
    THEN header
    ELSE Append(header, [col |-> col, title |-> title])

\* parse_vcfquality assigning a new detail table that holds the one entry
parse_vcfquality_only(w, s_name, status, data) ==
    LET w1 == Emit(w, "debug", "Parsing VcfQuality section", s_name)
        hdr == HeaderAdd(w1.self.general_stats_header, "VcfQuality", "VCF Quality")
        row == DictSet(w1.self.general_stats_data[s_name], "VcfQuality", status)
        w2 == [w1 EXCEPT
                 !.self.general_stats_header = hdr,
                 !.self.general_stats_data = DictSet(@, s_name, row)]
    IN  IF IsDict(data)
        THEN [w |-> [w2 EXCEPT !.self.vcpipe_vcfquality_data =
                                   DictSet(EmptyDict, s_name, DictSet(data, "status", status))],
              ret |-> 1, exc |-> ""]
        ELSE [w |-> w2, ret |-> 0, exc |-> "AttributeError"]

\* parse_vcfquality updating an existing detail entry instead of replacing it
parse_vcfquality_merge(w, s_name, status, data) ==
    LET w1 == Emit(w, "debug", "Parsing VcfQuality section", s_name)
        hdr == HeaderAdd(w1.self.general_stats_header, "VcfQuality", "VCF Quality")
        row == DictSet(w1.self.general_stats_data[s_name], "VcfQuality", status)
        old == IF s_name \in DOMAIN w1.self.vcpipe_vcfquality_data
               THEN w1.self.vcpipe_vcfquality_data[s_name]
               ELSE EmptyDict
        w2 == [w1 EXCEPT
                 !.self.general_stats_header = hdr,
                 !.self.general_stats_data = DictSet(@, s_name, row)]
    IN  IF IsDict(data)
        THEN [w |-> [w2 EXCEPT !.self.vcpipe_vcfquality_data =
                                   DictSet(@, s_name, DictSet(data @@ old, "status", status))],
              ret |-> 1, exc |-> ""]
        ELSE [w |-> w2, ret |-> 0, exc |-> "AttributeError"]

parse_vcfquality(w, s_name, status, data) ==
    LET w1 == Emit(w, "debug", "Parsing VcfQuality section", s_name)
        hdr == HeaderAdd(w1.self.general_stats_header, "VcfQuality", "VCF Quality")
        row == DictSet(w1.self.general_stats_data[s_name], "VcfQuality", status)
        w2 == [w1 EXCEPT
                 !.self.general_stats_header = hdr,
                 !.self.general_stats_data = DictSet(@, s_name, row)]
    IN  IF IsDict(data)
        THEN [w |-> [w2 EXCEPT !.self.vcpipe_vcfquality_data =
                                   DictSet(@, s_name, DictSet(data, "status", status))],
              ret |-> 1, exc |-> ""]
        ELSE [w |-> w2, ret |-> 0, exc |-> "AttributeError"]

\* parse_lowcoverage storing the depth counts only
parse_lowcoverage_depthonly(w, s_name, status, data) ==
    LET w1 == Emit(w, "debug", "Parsing LowCoverageRegions section", s_name)
        hdr == HeaderAdd(w1.self.general_stats_header,
                         "LowCoverageRegions", "Low Coverage Regions")
        row == DictSet(w1.self.general_stats_data[s_name], "LowCoverageRegions", status)
        w2 == [w1 EXCEPT
                 !.self.general_stats_header = hdr,
                 !.self.general_stats_data = DictSet(@, s_name, row)]
    IN  IF ~IsDict(data)
        THEN [w |-> w2, ret |-> 0, exc |-> "AttributeError"]
        ELSE IF Get(data, "failed") # None
        THEN LET failed == data["failed"].items
                 depth_counts ==
                     Counter([i \in DOMAIN failed |-> failed[i]["depth"]])
             IN  [w |-> [w2 EXCEPT
                           !.self.vcpipe_lowcoverage_data.depth =
                               DictSet(@, s_name, depth_counts)],
                  ret |-> 1, exc |-> ""]
        ELSE [w |-> Emit(w2, "debug", "No depth failures found", s_name),
              ret |-> 0, exc |-> ""]

parse_lowcoverage(w, s_name, status, data) ==
    LET w1 == Emit(w, "debug", "Parsing LowCoverageRegions section", s_name)
        hdr == HeaderAdd(w1.self.general_stats_header,
                         "LowCoverageRegions", "Low Coverage Regions")
        row == DictSet(w1.self.general_stats_data[s_name], "LowCoverageRegions", status)
        w2 == [w1 EXCEPT
                 !.self.general_stats_header = hdr,
                 !.self.general_stats_data = DictSet(@, s_name, row)]
    IN  IF ~IsDict(data)
        THEN [w |-> w2, ret |-> 0, exc |-> "AttributeError"]
        ELSE IF Get(data, "failed") # None
        THEN LET failed == data["failed"].items
                 depth_counts ==
                     Counter([i \in DOMAIN failed |-> failed[i]["depth"]])
                 region_size ==
                     Counter([i \in DOMAIN failed |->
                                 region_cat(failed[i]["start"], failed[i]["stop"])])
             IN  [w |-> [w2 EXCEPT
                           !.self.vcpipe_lowcoverage_data.depth =
                               DictSet(@, s_name, depth_counts),
                           !.self.vcpipe_lowcoverage_data.size =
                               DictSet(@, s_name, region_size)],
                  ret |-> 1, exc |-> ""]
        ELSE [w |-> Emit(w2, "debug", "No depth failures found", s_name),
              ret |-> 0, exc |-> ""]

\* parse_basequality storing the detail entry without the general-stats value
parse_basequality_nocol(w, s_name, status, data) ==
    LET w1 == Emit(w, "debug", "Parsing BaseQuality section", s_name)
        hdr == HeaderAdd(w1.self.general_stats_header, "BaseQuality", "Base Quality")
        w2 == [w1 EXCEPT !.self.general_stats_header = hdr]
    IN  IF IsDict(data)
        THEN [w |-> [w2 EXCEPT !.self.vcpipe_basequality_data = DictSet(@, s_name, data)],
              ret |-> 1, exc |-> ""]
        ELSE [w |-> w2, ret |-> 0, exc |-> "AttributeError"]

parse_basequality(w, s_name, status, data) ==
    LET w1 == Emit(w, "debug", "Parsing BaseQuality section", s_name)
        hdr == HeaderAdd(w1.self.general_stats_header, "BaseQuality", "Base Quality")
        row == DictSet(w1.self.general_stats_data[s_name], "BaseQuality", status)
        w2 == [w1 EXCEPT
                 !.self.general_stats_header = hdr,
                 !.self.general_stats_data = DictSet(@, s_name, row)]
    IN  IF IsDict(data)
        THEN [w |-> [w2 EXCEPT !.self.vcpipe_basequality_data = DictSet(@, s_name, data)],
              ret |-> 1, exc |-> ""]
        ELSE [w |-> w2, ret |-> 0, exc |-> "AttributeError"]

(***************************************************************************)
(* parse_log                                                               *)
(***************************************************************************)
\* the seen-check giving a duplicate sample name a fresh row
SeenStep_reset(w, log_file) ==
    LET w1 == IF log_file.s_name \in w.self.vcpipe_seen
              THEN Emit(w, "debug", "Duplicate sample name found", log_file.s_name)
              ELSE w
    IN  [w1 EXCEPT
           !.self.vcpipe_seen = @ \cup {log_file.s_name},
           !.self.general_stats_data = DictSet(@, log_file.s_name, EmptyDict)]

\* the seen-check and the creation of the general-stats row
SeenStep(w, log_file) ==
    IF log_file.s_name \in w.self.vcpipe_seen
    THEN Emit(w, "debug", "Duplicate sample name found", log_file.s_name)
    ELSE [w EXCEPT
            !.self.vcpipe_seen = @ \cup {log_file.s_name},
            !.self.general_stats_data = DictSet(@, log_file.s_name, EmptyDict)]

\* the missing-key branch also dropping the section's column from the row
MissingKey_clear(w, key, log_file) ==
    LET row == w.self.general_stats_data[log_file.s_name]
        kept == [k \in (DOMAIN row) \ {key} |-> row[k]]
    IN  Emit([w EXCEPT !.self.general_stats_data = DictSet(@, log_file.s_name, kept)],
             "error", "Could not find expected key", key)

MissingKey(w, key, log_file) ==
    Emit(w, "error", "Could not find expected key", key)

\* self.parse_x(s_name, *value) can bind status and data: the value has two
\* items; with any other number the call raises TypeError before the parser runs
Unpacks(value) == Len(value.items) = 2

Raise(w, exc) == [w |-> w, ret |-> 0, exc |-> exc]

\* parse_log giving up at the first missing key
parse_log_stop(w, log_file) ==
    LET raw_data == log_file.f
        s_name == log_file.s_name
        w0 == SeenStep(Emit(w, "debug", "Processing file", log_file.root), log_file)
        r1 == IF Get(raw_data, "VcfQuality") # None
              THEN IF Unpacks(raw_data["VcfQuality"])
                   THEN parse_vcfquality(w0, s_name,
                                         raw_data["VcfQuality"].items[1],
                                         raw_data["VcfQuality"].items[2])
                   ELSE Raise(w0, "TypeError")
              ELSE [w |-> MissingKey(w0, "VcfQuality", log_file), ret |-> 0, exc |-> ""]
        r2 == IF Get(raw_data, "LowCoverageRegions") # None
              THEN IF Unpacks(raw_data["LowCoverageRegions"])
                   THEN parse_lowcoverage(r1.w, s_name,
                                          raw_data["LowCoverageRegions"].items[1],
                                          raw_data["LowCoverageRegions"].items[2])
                   ELSE Raise(r1.w, "TypeError")
              ELSE [w |-> MissingKey(r1.w, "LowCoverageRegions", log_file),
                    ret |-> 0, exc |-> ""]
        r3 == IF Get(raw_data, "BaseQuality") # None
              THEN IF Unpacks(raw_data["BaseQuality"])
                   THEN parse_basequality(r2.w, s_name,
                                          raw_data["BaseQuality"].items[1],
                                          raw_data["BaseQuality"].items[2])
                   ELSE Raise(r2.w, "TypeError")
              ELSE [w |-> MissingKey(r2.w, "BaseQuality", log_file), ret |-> 0, exc |-> ""]
    IN  IF r1.exc # "" \/ Get(raw_data, "VcfQuality") = None THEN r1
        ELSE IF r2.exc # "" \/ Get(raw_data, "LowCoverageRegions") = None
             THEN [w |-> r2.w, ret |-> r1.ret + r2.ret, exc |-> r2.exc]
        ELSE [w |-> r3.w, ret |-> r1.ret + r2.ret + r3.ret, exc |-> r3.exc]

\* the three sections in the order of lines 166-179; an exception leaves the
\* function at the point where it was raised
parse_log(w, log_file) ==
    LET raw_data == log_file.f
        s_name == log_file.s_name
        w0 == SeenStep(Emit(w, "debug", "Processing file", log_file.root), log_file)
        r1 == IF Get(raw_data, "VcfQuality") # None
              THEN IF Unpacks(raw_data["VcfQuality"])
                   THEN parse_vcfquality(w0, s_name,
                                         raw_data["VcfQuality"].items[1],
                                         raw_data["VcfQuality"].items[2])
                   ELSE Raise(w0, "TypeError")
              ELSE [w |-> MissingKey(w0, "VcfQuality", log_file), ret |-> 0, exc |-> ""]
        r2 == IF Get(raw_data, "LowCoverageRegions") # None
              THEN IF Unpacks(raw_data["LowCoverageRegions"])
                   THEN parse_lowcoverage(r1.w, s_name,
                                          raw_data["LowCoverageRegions"].items[1],
                                          raw_data["LowCoverageRegions"].items[2])
                   ELSE Raise(r1.w, "TypeError")
              ELSE [w |-> MissingKey(r1.w, "LowCoverageRegions", log_file),
                    ret |-> 0, exc |-> ""]
        r3 == IF Get(raw_data, "BaseQuality") # None
              THEN IF Unpacks(raw_data["BaseQuality"])
                   THEN parse_basequality(r2.w, s_name,
                                          raw_data["BaseQuality"].items[1],
                                          raw_data["BaseQuality"].items[2])
                   ELSE Raise(r2.w, "TypeError")
              ELSE [w |-> MissingKey(r2.w, "BaseQuality", log_file), ret |-> 0, exc |-> ""]
    IN  IF r1.exc # "" THEN r1
        ELSE IF r2.exc # "" THEN r2
        ELSE [w |-> r3.w, ret |-> r1.ret + r2.ret + r3.ret, exc |-> r3.exc]

(***************************************************************************)
(* Sample name from the root path: re.search("Diag-(.+?)\/", root).        *)
(* The search tries the start positions left to right; at a position where *)
(* the literal matches, the lazy group takes one character and then grows  *)
(* until the next character is "/".                                        *)
(***************************************************************************)
Literal == <<"D", "i", "a", "g", "-">>

LiteralAt(string, i) ==
    /\ i + Len(Literal) - 1 <= Len(string)
    /\ \A k \in DOMAIN Literal : string[i + k - 1] = Literal[k]

\* position of the "/" that ends the lazy group, trying the ends from k on; 0 if none
RECURSIVE LazyEnd(_, _)
LazyEnd(string, k) ==
    IF k > Len(string) THEN 0
    ELSE IF string[k] = "/" THEN k
    ELSE LazyEnd(string, k + 1)

\* the group as a greedy (.+): it ends at the last "/" of the string
GroupEnd_greedy(string, g) ==
    LET ends == {k \in (g + 1)..Len(string) : string[k] = "/"}
    IN  IF ends = {} THEN 0 ELSE CHOOSE k \in ends : \A j \in ends : j <= k

\* (.+?)\/ with the group starting at g: the position of the closing "/", 0 if none
GroupEnd(string, g) == LazyEnd(string, g + 1)

RECURSIVE SearchFrom(_, _)
SearchFrom(string, i) ==
    IF i > Len(string) THEN None
    ELSE LET g == i + Len(Literal)
             e == IF LiteralAt(string, i) /\ g <= Len(string)
                  THEN GroupEnd(string, g)
                  ELSE 0
         IN  IF e > 0
             THEN [json |-> "match", groups |-> <<SubSeq(string, g, e - 1)>>]
             ELSE SearchFrom(string, i + 1)

re_search(string) == SearchFrom(string, 1)

(***************************************************************************)
(* clean_s_name of the base module (not part of the module's own source):  *)
(* the name is cut at the first ".gz" and an empty result falls back to    *)
(* the name as given.                                                      *)
(***************************************************************************)
CleanExt == <<".", "g", "z">>

RECURSIVE ExtAt(_, _)
ExtAt(s, i) ==
    IF i + Len(CleanExt) - 1 > Len(s) THEN 0
    ELSE IF SubSeq(s, i, i + Len(CleanExt) - 1) = CleanExt THEN i
    ELSE ExtAt(s, i + 1)

clean_s_name(s_name, root) ==
    LET at == ExtAt(s_name, 1)
        cut == IF at = 0 THEN s_name ELSE SubSeq(s_name, 1, at - 1)
    IN  IF cut = <<>> THEN s_name ELSE cut

(***************************************************************************)
(* The discovered files.  find_log_files yields dicts with the file name   *)
(* (fn), the directory (root) and the content (f); the content is the JSON *)
(* document json.loads returns.                                            *)
(***************************************************************************)
Region(start, stop, depth) == [start |-> start, stop |-> stop, depth |-> depth]

VcfSections == {Array(<<0, [variants |-> 120, contamination |-> 0]>>),
                Array(<<1, [variants |-> 7]>>)}

BaseSections == {Array(<<0, [reads |-> 1000, q30_bases_pct |-> 95]>>),
                 Array(<<1, [reads |-> 2000]>>)}

LowCovSections ==
    { Array(<<1, EmptyDict>>),
      Array(<<0, [failed |-> Array(<<>>)]>>),
      Array(<<1, [failed |-> Array(<<Region(1, 10, 5), Region(21, 30, 5),
                                      Region(1, 100, 12)>>)]>>) }

SectionKeys == {"VcfQuality", "LowCoverageRegions", "BaseQuality"}

SectionsOf(key) ==
    IF key = "VcfQuality" THEN VcfSections
    ELSE IF key = "LowCoverageRegions" THEN LowCovSections
    ELSE BaseSections

\* the JSON documents: every subset of the three keys, each key null or a section
Documents ==
    UNION { [ks -> {None} \cup VcfSections \cup LowCovSections \cup BaseSections]
            : ks \in SUBSET SectionKeys }

WellFormed(doc) ==
    \A k \in DOMAIN doc : doc[k] = None \/ doc[k] \in SectionsOf(k)

Bodies == {doc \in Documents : WellFormed(doc)}

Roots ==
    { <<"D", "i", "a", "g", "-", "a", "/">>,
      <<"D", "i", "a", "g", "-", "b", "/">>,
      <<"D", "i", "a", "g", "-", "/">>,
      <<"r", "/">> }

NoFile == [fn |-> 0]

(***************************************************************************)
(* The constructor: state after lines 27-33, one loop iteration, and the   *)
(* output block after the loop.  prev is a history variable: the           *)
(* instance's fields as they were when the latest iteration began.         *)
(***************************************************************************)
NewModule ==
    [general_stats_header |-> <<>>,
     general_stats_data |-> EmptyDict,
     vcpipe_seen |-> {},
     vcpipe_vcfquality_data |-> EmptyDict,
     vcpipe_lowcoverage_data |-> [depth |-> EmptyDict, size |-> EmptyDict],
     vcpipe_basequality_data |-> EmptyDict]

NoCall == [op |-> "none"]

Init ==
    /\ self = NewModule
    /\ f = NoFile
    /\ n = EmptyDict
    /\ idx = 0
    /\ pc = "loop"
    /\ log = <<>>
    /\ data_sources = {}
    /\ outputs = <<>>
    /\ call = NoCall
    /\ prev = NewModule

\* add_data_source(f): the registry, as the set of the registered files' names
add_data_source(sources, file) == sources \cup {file.fn}

\* lines 43-45 for the file with its sample name set; an exception of parse_log
\* leaves the constructor, n and the registry as they were
Ingest(file) ==
    \E r \in {parse_log([self |-> self, log |-> <<>>], file)} :
        /\ f' = file
        /\ self' = r.w.self
        /\ log' = r.w.log
        /\ n' = IF r.exc = "" THEN r.ret ELSE n
        /\ data_sources' = IF r.exc = "" /\ r.ret > 0
                           THEN add_data_source(data_sources, file)
                           ELSE data_sources
        /\ pc' = IF r.exc = "" THEN "loop" ELSE "raised"

\* the loop skipping a file whose root gives no sample name
LoopBody_skip(root) ==
    LET sname_match == re_search(root)
    IN  IF sname_match # None
        THEN \E body \in Bodies :
                 Ingest([fn |-> idx + 1, root |-> root, f |-> body,
                         s_name |-> clean_s_name(sname_match.groups[1], root)])
        ELSE /\ f' = [fn |-> idx + 1, root |-> root]
             /\ pc' = "loop"
             /\ UNCHANGED <<self, log, n, data_sources>>

\* one iteration of the loop over find_log_files, for a file yielded from root
\* with one of the given contents; the content is read by parse_log only, so a
\* file whose root raises is kept without it
LoopBodyOver(root, bodies) ==
    LET sname_match == re_search(root)
    IN  IF sname_match # None
        THEN \E body \in bodies :
                 Ingest([fn |-> idx + 1, root |-> root, f |-> body,
                         s_name |-> clean_s_name(sname_match.groups[1], root)])
        ELSE /\ f' = [fn |-> idx + 1, root |-> root]
             /\ pc' = "raised"
             /\ UNCHANGED <<self, log, n, data_sources>>

LoopBody(root) == LoopBodyOver(root, Bodies)

Iterate ==
    /\ pc = "loop"
    /\ idx < MaxFiles
    /\ \E root \in Roots : LoopBody(root)
    /\ idx' = idx + 1
    /\ prev' = self
    /\ UNCHANGED <<outputs, call>>

Out(fn, arg) == [call |-> fn, arg |-> arg]

\* lines 47-153: general stats, then each detail output under its len() test
BuildOutputs(m) ==
    <<Out("general_stats_addcols", "general_stats")>>
    \o (IF DictLen(m.vcpipe_vcfquality_data) > 0
        THEN <<Out("write_data_file", "multiqc_vcpipe_vcfquality"),
               Out("add_section", "VCF Quality")>>
        ELSE <<>>)
    \o (IF DictLen(m.vcpipe_lowcoverage_data) > 0
        THEN <<Out("write_data_file", "multiqc_vcpipe_lowcoverage"),
               Out("add_section", "Low Coverage")>>
        ELSE <<>>)
    \o (IF DictLen(m.vcpipe_basequality_data) > 0
        THEN <<Out("write_data_file", "multiqc_vcpipe_basequality"),
               Out("add_section", "Base Quality")>>
        ELSE <<>>)

\* the output block run without leaving the constructor
Finish_again ==
    /\ pc = "loop"
    /\ idx <= MaxFiles
    /\ outputs' = BuildOutputs(self)
    /\ pc' = "loop"
    /\ UNCHANGED <<self, f, n, idx, log, data_sources, call, prev>>

\* the generator is exhausted: the loop ends and the outputs are built
Finish ==
    /\ pc = "loop"
    /\ idx <= MaxFiles
    /\ outputs' = BuildOutputs(self)
    /\ pc' = "done"
    /\ UNCHANGED <<self, f, n, idx, log, data_sources, call, prev>>

Next == Iterate \/ Finish

Spec == Init /\ [][Next]_vars

\* the set of discovered files is finite: the generator is exhausted after
\* finitely many files, and the constructor then runs on into the output block
FairSpec == Spec /\ WF_vars(Finish)

(***************************************************************************)
(* The same constructor over files whose section values need not be        *)
(* [status, data] pairs with a dict as data: a value may lack the data     *)
(* item, carry a third item, or have null as its data.                     *)
(***************************************************************************)
AnySections(key) ==
    { None,
      Array(<<1>>),
      Array(<<1, None>>),
      Array(<<0, EmptyDict, 0>>),
      IF key = "LowCoverageRegions"
      THEN Array(<<1, [failed |-> Array(<<Region(1, 10, 5)>>)]>>)
      ELSE Array(<<0, [reads |-> 1000]>>) }

AnyBodies ==
    { doc \in [SectionKeys -> UNION {AnySections(k) : k \in SectionKeys}] :
        \A k \in SectionKeys : doc[k] \in AnySections(k) }

IterateAny ==
    /\ pc = "loop"
    /\ idx < MaxFiles
    /\ \E root \in Roots : LoopBodyOver(root, AnyBodies)
    /\ idx' = idx + 1
    /\ prev' = self
    /\ UNCHANGED <<outputs, call>>

NextAny == IterateAny \/ Finish

SpecAny == Init /\ [][NextAny]_vars

(***************************************************************************)
(* region_cat on its own: the arguments are drawn from                     *)
(* -MinCoord..MaxStart and -MinCoord..MaxStop and the function is applied. *)
(***************************************************************************)
InitRegion ==
    /\ self = NewModule /\ prev = NewModule
    /\ f = NoFile /\ n = EmptyDict /\ idx = 0 /\ pc = "loop"
    /\ log = <<>> /\ data_sources = {} /\ outputs = <<>>
    /\ \E start \in (-MinCoord)..MaxStart, stop \in (-MinCoord)..MaxStop :
           call = [op |-> "region_cat", start |-> start, stop |-> stop,
                   done |-> FALSE, ret |-> ""]

CallRegionCat ==
    /\ call.op = "region_cat"
    /\ ~call.done
    /\ call' = [call EXCEPT !.done = TRUE, !.ret = region_cat(call.start, call.stop)]
    /\ UNCHANGED <<self, f, n, idx, pc, log, data_sources, outputs, prev>>

NextRegion == CallRegionCat

SpecRegion == InitRegion /\ [][NextRegion]_vars

(***************************************************************************)
(* The sample name of a root on its own (lines 37-42): the root is built   *)
(* from at most MaxPieces pieces, searched, and the group cleaned.         *)
(***************************************************************************)
Pieces == {Literal, <<"/">>, <<"a">>, <<"b">>, CleanExt}

RECURSIVE PathsUpTo(_)
PathsUpTo(k) ==
    IF k = 0 THEN {<<>>}
    ELSE LET shorter == PathsUpTo(k - 1)
         IN  shorter \cup {p \o q : p \in shorter, q \in Pieces}

InitPath ==
    /\ self = NewModule /\ prev = NewModule
    /\ f = NoFile /\ n = EmptyDict /\ idx = 0 /\ pc = "loop"
    /\ log = <<>> /\ data_sources = {} /\ outputs = <<>>
    /\ \E root \in PathsUpTo(MaxPieces) :
           call = [op |-> "sample_name", root |-> root, done |-> FALSE,
                   raised |-> FALSE, raw |-> <<>>, s_name |-> <<>>]

CallSampleName ==
    /\ call.op = "sample_name"
    /\ ~call.done
    /\ LET sname_match == re_search(call.root)
       IN  IF sname_match # None
           THEN call' = [call EXCEPT
                           !.done = TRUE,
                           !.raw = sname_match.groups[1],
                           !.s_name = clean_s_name(sname_match.groups[1], call.root)]
           ELSE call' = [call EXCEPT !.done = TRUE, !.raised = TRUE]
    /\ UNCHANGED <<self, f, n, idx, pc, log, data_sources, outputs, prev>>

NextPath == CallSampleName

SpecPath == InitPath /\ [][NextPath]_vars

(***************************************************************************)
(* parse_lowcoverage on its own: a failed list of at most MaxRegions       *)
(* regions is parsed for a sample whose row parse_log has just created.    *)
(***************************************************************************)
RegionPool ==
    { Region(1, 9, 5), Region(1, 10, 5), Region(1, 100, 12),
      Region(100, 105, 3), Region(200, 250, 8) }

RECURSIVE ListsUpTo(_)
ListsUpTo(k) ==
    IF k = 0 THEN {<<>>}
    ELSE LET shorter == ListsUpTo(k - 1)
         IN  shorter \cup {Append(l, r) : l \in shorter, r \in RegionPool}

ProbeName == <<"a">>

SeenModule ==
    SeenStep([self |-> NewModule, log |-> <<>>], [s_name |-> ProbeName]).self

InitLowCov ==
    /\ self = SeenModule /\ prev = SeenModule
    /\ f = NoFile /\ n = EmptyDict /\ idx = 0 /\ pc = "loop"
    /\ log = <<>> /\ data_sources = {} /\ outputs = <<>>
    /\ \E failed \in ListsUpTo(MaxRegions) :
           call = [op |-> "parse_lowcoverage", failed |-> failed, done |-> FALSE]

CallParseLowcoverage ==
    /\ call.op = "parse_lowcoverage"
    /\ ~call.done
    /\ \E r \in {parse_lowcoverage([self |-> self, log |-> <<>>], ProbeName, 1,
                                   [failed |-> Array(call.failed)])} :
           /\ self' = r.w.self
           /\ log' = r.w.log
           /\ n' = r.ret
    /\ call' = [call EXCEPT !.done = TRUE]
    /\ UNCHANGED <<f, idx, pc, data_sources, outputs, prev>>

NextLowCov == CallParseLowcoverage

SpecLowCov == InitLowCov /\ [][NextLowCov]_vars

(***************************************************************************)
(* Two discovered files folded in both orders.  find_log_files owns the    *)
(* order, so the same two files can reach the loop either way round; each  *)
(* file keeps its name (fn) and its root.  The first order's result is in  *)
(* self and data_sources, the second order's in call.other.                *)
(***************************************************************************)
MarkedRoots == {root \in Roots : re_search(root) # None}

DiscoveredFiles(fn) ==
    { [fn |-> fn, root |-> root, f |-> body,
       s_name |-> clean_s_name(re_search(root).groups[1], root)]
      : root \in MarkedRoots, body \in Bodies }

\* lines 43-45 as a function of the instance and the registry
IngestResult(m, file) ==
    LET r == parse_log([self |-> m.self, log |-> <<>>], file)
    IN  [self |-> r.w.self,
         sources |-> IF r.ret > 0 THEN add_data_source(m.sources, file) ELSE m.sources]

Constructed == [self |-> NewModule, sources |-> {}]

InitOrder ==
    /\ self = NewModule /\ prev = NewModule
    /\ f = NoFile /\ n = EmptyDict /\ idx = 0 /\ pc = "loop"
    /\ log = <<>> /\ data_sources = {} /\ outputs = <<>>
    /\ \E file1 \in DiscoveredFiles(1), file2 \in DiscoveredFiles(2) :
           call = [op |-> "orders", files |-> <<file1, file2>>,
                   done |-> FALSE, other |-> Constructed]

FoldBothOrders ==
    /\ call.op = "orders"
    /\ ~call.done
    /\ \E forward \in {IngestResult(IngestResult(Constructed, call.files[1]), call.files[2])},
          backward \in {IngestResult(IngestResult(Constructed, call.files[2]), call.files[1])} :
           /\ self' = forward.self
           /\ data_sources' = forward.sources
           /\ call' = [call EXCEPT !.done = TRUE, !.other = backward]
    /\ UNCHANGED <<f, n, idx, pc, log, outputs, prev>>

NextOrder == FoldBothOrders

SpecOrder == InitOrder /\ [][NextOrder]_vars

(***************************************************************************)
(* Vocabulary of the properties.                                           *)
(***************************************************************************)
\* the latest iteration ran parse_log on f (it did not raise)
Ingested == idx > 0 /\ pc # "raised"

\* the latest file's sample key had been seen before the file was ingested
Duplicate == Ingested /\ f.s_name \in prev.vcpipe_seen

\* the section key is in the latest file's document with a non-null value
Present(k) == Get(f.f, k) # None

Status(k) == f.f[k].items[1]

Data(k) == f.f[k].items[2]

\* the latest file's LowCoverageRegions section carries a failed list
HasFailed == Present("LowCoverageRegions") /\ Get(Data("LowCoverageRegions"), "failed") # None

Failed == Data("LowCoverageRegions")["failed"].items

\* the general-stats row of a sample key in an instance (no row: the empty dict)
Row(m, key) ==
    IF key \in DOMAIN m.general_stats_data THEN m.general_stats_data[key] ELSE EmptyDict

\* the column of a row is the same in two rows: absent in both, or the same value
SameColumn(r1, r2, k) ==
    /\ (k \in DOMAIN r1) <=> (k \in DOMAIN r2)
    /\ k \in DOMAIN r1 => r1[k] = r2[k]

\* a sample key's entry is the same in two tables: absent in both, or equal
SameEntry(t1, t2, key) ==
    /\ (key \in DOMAIN t1) <=> (key \in DOMAIN t2)
    /\ key \in DOMAIN t1 => t1[key] = t2[key]

\* the detail tables a section key writes, as one record
Detail(m, k) ==
    IF k = "VcfQuality" THEN [t |-> m.vcpipe_vcfquality_data]
    ELSE IF k = "BaseQuality" THEN [t |-> m.vcpipe_basequality_data]
    ELSE [depth |-> m.vcpipe_lowcoverage_data.depth,
          size |-> m.vcpipe_lowcoverage_data.size]

SameDetailEntry(m1, m2, k, key) ==
    IF k = "LowCoverageRegions"
    THEN /\ SameEntry(Detail(m1, k).depth, Detail(m2, k).depth, key)
         /\ SameEntry(Detail(m1, k).size, Detail(m2, k).size, key)
    ELSE SameEntry(Detail(m1, k).t, Detail(m2, k).t, key)

\* the number of the list's regions that satisfy a test
CountOf(list, Test(_)) == Cardinality({i \in DOMAIN list : Test(list[i])})

\* what one file alone puts into the detail tables for its sample key
VcfAlone(entry) ==
    /\ DOMAIN entry = (DOMAIN Data("VcfQuality")) \cup {"status"}
    /\ entry["status"] = Status("VcfQuality")
    /\ \A k \in (DOMAIN Data("VcfQuality")) \ {"status"} :
           entry[k] = Data("VcfQuality")[k]

DepthAlone(entry) ==
    /\ DOMAIN entry = {Failed[i]["depth"] : i \in DOMAIN Failed}
    /\ \A d \in DOMAIN entry :
           LET HasDepth(r) == r["depth"] = d
           IN  entry[d] = CountOf(Failed, HasDepth)

SizeAlone(entry) ==
    /\ DOMAIN entry = {region_cat(Failed[i]["start"], Failed[i]["stop"]) : i \in DOMAIN Failed}
    /\ \A b \in DOMAIN entry :
           LET InBucket(r) == region_cat(r["start"], r["stop"]) = b
           IN  entry[b] = CountOf(Failed, InBucket)

(***************************************************************************)
(* C1.  When a file is ingested for a sample key that an earlier file      *)
(* already had, then for every section the file has, the general-stats     *)
(* column holds the file's status and the detail entry of the key is       *)
(* exactly what the file alone produces: the data's fields plus the status *)
(* for VcfQuality, the data for BaseQuality, the counts of the file's own  *)
(* failed regions for LowCoverageRegions with a failed list.               *)
(***************************************************************************)
C1_LastFileWins ==
    Duplicate =>
        LET key == f.s_name
            row == self.general_stats_data[key]
        IN  /\ \A k \in SectionKeys :
                   Present(k) => k \in DOMAIN row /\ row[k] = Status(k)
            /\ Present("VcfQuality") =>
                   /\ key \in DOMAIN self.vcpipe_vcfquality_data
                   /\ VcfAlone(self.vcpipe_vcfquality_data[key])
            /\ Present("BaseQuality") =>
                   /\ key \in DOMAIN self.vcpipe_basequality_data
                   /\ self.vcpipe_basequality_data[key] = Data("BaseQuality")
            /\ HasFailed =>
                   /\ key \in DOMAIN self.vcpipe_lowcoverage_data.depth
                   /\ key \in DOMAIN self.vcpipe_lowcoverage_data.size
                   /\ DepthAlone(self.vcpipe_lowcoverage_data.depth[key])
                   /\ SizeAlone(self.vcpipe_lowcoverage_data.size[key])

\* a second file with all three sections replaced entries that differed from its own
C1_Witness ==
    /\ Duplicate
    /\ \A k \in SectionKeys : Present(k)
    /\ HasFailed /\ Failed # <<>>
    /\ LET key == f.s_name
       IN  /\ key \in DOMAIN prev.vcpipe_vcfquality_data
           /\ key \in DOMAIN prev.vcpipe_basequality_data
           /\ key \in DOMAIN prev.vcpipe_lowcoverage_data.depth
           /\ prev.vcpipe_vcfquality_data[key] # self.vcpipe_vcfquality_data[key]
           /\ prev.vcpipe_basequality_data[key] # self.vcpipe_basequality_data[key]
           /\ prev.vcpipe_lowcoverage_data.depth[key] # self.vcpipe_lowcoverage_data.depth[key]
           /\ prev.general_stats_data[key]["VcfQuality"] # self.general_stats_data[key]["VcfQuality"]

C3_RowReused ==
    Duplicate =>
        \A k \in SectionKeys :
            ~Present(k) =>
                SameColumn(self.general_stats_data[f.s_name],
                           prev.general_stats_data[f.s_name], k)

\* the file wrote one column of the row and lacked a section whose column was set
C3_Witness ==
    /\ Duplicate
    /\ Present("BaseQuality")
    /\ \E k \in SectionKeys :
           /\ ~Present(k)
           /\ k \in DOMAIN prev.general_stats_data[f.s_name]
    /\ self.general_stats_data[f.s_name] # prev.general_stats_data[f.s_name]

(***************************************************************************)
(* C4 as stated.  A LowCoverageRegions section whose data has no failed    *)
(* list counts as parsed: the count parse_log returns includes every       *)
(* section present in the file, so a file with only such a section         *)
(* returns 1.                                                              *)
(***************************************************************************)
C4_NoFailedListCounted ==
    (Ingested /\ Present("LowCoverageRegions") /\ ~HasFailed) =>
        n = Cardinality({k \in SectionKeys : Present(k)})

(***************************************************************************)
(* C5 as stated.  After a LowCoverageRegions section whose failed list is  *)
(* absent or empty is ingested, the depth map and the size map have no     *)
(* entry for the sample key.                                               *)
(***************************************************************************)
C5_NoEntryWithoutFailures ==
    (Ingested /\ Present("LowCoverageRegions") /\ (HasFailed => Failed = <<>>)) =>
        /\ f.s_name \notin DOMAIN self.vcpipe_lowcoverage_data.depth
        /\ f.s_name \notin DOMAIN self.vcpipe_lowcoverage_data.size

(***************************************************************************)
(* C6.  A yielded file whose root has no "Diag-" followed by at least one  *)
(* character and a later "/" ends the run with the error: the file is      *)
(* neither ingested nor registered, no output is emitted, and no further   *)
(* step is taken.  Only such a file ends the run this way.                 *)
(***************************************************************************)
HasMarker(root) ==
    \E i \in DOMAIN root, j \in DOMAIN root :
        /\ i + 4 <= Len(root)
        /\ SubSeq(root, i, i + 4) = <<"D", "i", "a", "g", "-">>
        /\ j >= i + 6
        /\ root[j] = "/"

C6_AbortOnBadPath ==
    /\ (idx > 0 /\ ~HasMarker(f.root)) =>
           /\ pc = "raised"
           /\ f.fn = idx
           /\ f.fn \notin data_sources
           /\ self = prev
           /\ outputs = <<>>
           /\ ~ENABLED Next
    /\ pc = "raised" => ~HasMarker(f.root)

\* the run ended at its second file, after a file that was ingested and registered
C6_Witness ==
    /\ pc = "raised"
    /\ idx = 2
    /\ data_sources = {1}
    /\ DictLen(self.vcpipe_vcfquality_data) > 0
    /\ outputs = <<>>

(***************************************************************************)
(* C7 as stated.  The latest file is registered as a data source exactly   *)
(* when one of the three section keys is present and non-null in it.       *)
(***************************************************************************)
C7_RegisteredIffSection ==
    Ingested => ((f.fn \in data_sources) <=> (\E k \in SectionKeys : Present(k)))

(***************************************************************************)
(* C8.  For each section key that is absent from the document or null,     *)
(* parse_log emits exactly one missing-key error for it (and none for a    *)
(* key that is present), does not count it, and leaves the section's       *)
(* column in every row and the section's detail table as they were; the    *)
(* sections that are present are still processed.  The count returned is   *)
(* between 0 and 3, and is 2 for a document that lacks only BaseQuality    *)
(* and whose LowCoverageRegions has failed regions.                        *)
(***************************************************************************)
Errors(k) ==
    Cardinality({i \in DOMAIN log : log[i].level = "error" /\ log[i].about = k})

C8_MissingSection ==
    Ingested =>
        /\ \A k \in SectionKeys : Errors(k) = IF Present(k) THEN 0 ELSE 1
        /\ \A k \in SectionKeys :
               ~Present(k) =>
                   /\ \A key \in DOMAIN self.general_stats_data :
                          SameColumn(Row(self, key), Row(prev, key), k)
                   /\ Detail(self, k) = Detail(prev, k)
        /\ \A k \in SectionKeys :
               Present(k) =>
                   /\ k \in DOMAIN self.general_stats_data[f.s_name]
                   /\ self.general_stats_data[f.s_name][k] = Status(k)
        /\ n \in 0..3
        /\ n <= Cardinality({k \in SectionKeys : Present(k)})
        /\ (/\ Present("VcfQuality")
            /\ HasFailed
            /\ ~Present("BaseQuality")) => n = 2

\* a document without BaseQuality, ingested for a key that has a base-quality entry
C8_Witness ==
    /\ Ingested
    /\ DOMAIN f.f = {"VcfQuality", "LowCoverageRegions"}
    /\ Present("VcfQuality")
    /\ HasFailed /\ Failed # <<>>
    /\ n = 2
    /\ Errors("BaseQuality") = 1
    /\ f.s_name \in DOMAIN prev.vcpipe_basequality_data

(***************************************************************************)
(* C9.  region_cat returns, for every pair of integers, the one bucket of  *)
(* the length stop - start + 1: "<10" below 10, "10-19" for 10..19,        *)
(* "20-29" for 20..29, "30-49" for 30..49, "50-99" for 50..99 and "100+"   *)
(* from 100 on; a stop below the start is bucketed like any other pair.    *)
(***************************************************************************)
C9_Buckets ==
    (call.op = "region_cat" /\ call.done) =>
        LET length == call.stop - call.start + 1
        IN  /\ call.ret \in {"<10", "10-19", "20-29", "30-49", "50-99", "100+"}
            /\ call.ret = "<10" <=> length < 10
            /\ call.ret = "10-19" <=> (10 <= length /\ length <= 19)
            /\ call.ret = "20-29" <=> (20 <= length /\ length <= 29)
            /\ call.ret = "30-49" <=> (30 <= length /\ length <= 49)
            /\ call.ret = "50-99" <=> (50 <= length /\ length <= 99)
            /\ call.ret = "100+" <=> length >= 100

\* region_cat(1, 100), the first length in the last bucket
C9_Witness ==
    /\ call.op = "region_cat" /\ call.done
    /\ call.start = 1 /\ call.stop = 100
    /\ call.ret = "100+"

(***************************************************************************)
(* C10 as stated.  For every root that contains "Diag-" X "/" for some     *)
(* non-empty X, the sample name extracted is X.                            *)
(***************************************************************************)
Occurs(root, i, piece) ==
    /\ i >= 1
    /\ i + Len(piece) - 1 <= Len(root)
    /\ SubSeq(root, i, i + Len(piece) - 1) = piece

C10_EveryMarker ==
    (call.op = "sample_name" /\ call.done) =>
        \A i \in DOMAIN call.root, j \in DOMAIN call.root :
            (/\ Occurs(call.root, i, <<"D", "i", "a", "g", "-">>)
             /\ j >= i + 6
             /\ call.root[j] = "/")
            => (~call.raised /\ call.raw = SubSeq(call.root, i + 5, j - 1))

(***************************************************************************)
(* C10 as amended.  For every root whose first "Diag-" is directly         *)
(* followed by a non-empty X without "/" and then by "/", the sample name  *)
(* extracted is X.                                                         *)
(***************************************************************************)
C10_FirstMarkerSegment ==
    (call.op = "sample_name" /\ call.done) =>
        \A i \in DOMAIN call.root, j \in DOMAIN call.root :
            (/\ Occurs(call.root, i, <<"D", "i", "a", "g", "-">>)
             /\ \A h \in 1..(i - 1) : ~Occurs(call.root, h, <<"D", "i", "a", "g", "-">>)
             /\ j >= i + 6
             /\ call.root[j] = "/"
             /\ \A h \in (i + 5)..(j - 1) : call.root[h] # "/")
            => (~call.raised /\ call.raw = SubSeq(call.root, i + 5, j - 1))

\* "Diag-a/Diag-b/": two markers, the name is that of the first
C10_Witness ==
    /\ call.op = "sample_name" /\ call.done
    /\ call.root = <<"D", "i", "a", "g", "-", "a", "/", "D", "i", "a", "g", "-", "b", "/">>
    /\ ~call.raised
    /\ call.raw = <<"a">>

(***************************************************************************)
(* C11.  For a LowCoverageRegions section with a non-empty failed list,    *)
(* the depth map stored for the sample maps each depth to the number of    *)
(* failed regions with that depth, and the size map maps each size bucket  *)
(* to the number of failed regions whose length stop - start + 1 lies in   *)
(* it; a depth or bucket without a region does not appear.                 *)
(***************************************************************************)
LengthIn(b, length) ==
    \/ b = "<10" /\ length < 10
    \/ b = "10-19" /\ 10 <= length /\ length <= 19
    \/ b = "20-29" /\ 20 <= length /\ length <= 29
    \/ b = "30-49" /\ 30 <= length /\ length <= 49
    \/ b = "50-99" /\ 50 <= length /\ length <= 99
    \/ b = "100+" /\ length >= 100

C11_DepthAndSizeCounts ==
    (call.op = "parse_lowcoverage" /\ call.done /\ call.failed # <<>>) =>
        LET depth == self.vcpipe_lowcoverage_data.depth[ProbeName]
            size == self.vcpipe_lowcoverage_data.size[ProbeName]
            WithDepth(d) == {i \in DOMAIN call.failed : call.failed[i]["depth"] = d}
            WithSize(b) ==
                {i \in DOMAIN call.failed :
                    LengthIn(b, call.failed[i]["stop"] - call.failed[i]["start"] + 1)}
        IN  /\ DOMAIN depth = {d \in 0..20 : WithDepth(d) # {}}
            /\ \A d \in DOMAIN depth : depth[d] = Cardinality(WithDepth(d))
            /\ DOMAIN size = {b \in {"<10", "10-19", "20-29", "30-49", "50-99", "100+"} :
                                 WithSize(b) # {}}
            /\ \A b \in DOMAIN size : size[b] = Cardinality(WithSize(b))

\* depths 5, 5, 12 give {5: 2, 12: 1}
C11_Witness ==
    /\ call.op = "parse_lowcoverage" /\ call.done
    /\ call.failed = <<Region(1, 9, 5), Region(1, 10, 5), Region(1, 100, 12)>>
    /\ DOMAIN self.vcpipe_lowcoverage_data.depth[ProbeName] = {5, 12}
    /\ self.vcpipe_lowcoverage_data.depth[ProbeName][5] = 2
    /\ self.vcpipe_lowcoverage_data.depth[ProbeName][12] = 1
    /\ self.vcpipe_lowcoverage_data.size[ProbeName]["100+"] = 1

(***************************************************************************)
(* C12.  At the end of a run each detail output is emitted only if its     *)
(* table is non-empty: the low-coverage data file and section are emitted  *)
(* only when some sample has depth or size entries.                        *)
(***************************************************************************)
Emitted(name) ==
    \E i \in DOMAIN outputs : outputs[i] = Out("write_data_file", name)

C12_EmittedOnlyIfNonEmpty ==
    pc = "done" =>
        /\ Emitted("multiqc_vcpipe_vcfquality") => DictLen(self.vcpipe_vcfquality_data) > 0
        /\ Emitted("multiqc_vcpipe_basequality") => DictLen(self.vcpipe_basequality_data) > 0
        /\ Emitted("multiqc_vcpipe_lowcoverage") =>
               \/ DictLen(self.vcpipe_lowcoverage_data.depth) > 0
               \/ DictLen(self.vcpipe_lowcoverage_data.size) > 0

(***************************************************************************)
(* C13.  A section value that is not None but is not a [status, data] pair *)
(* with a dict as data never aborts the run: the constructor goes on with  *)
(* the file's other sections and with the later files.                     *)
(***************************************************************************)
Malformed(v) ==
    /\ v # None
    /\ ~(Len(v.items) = 2 /\ IsDict(v.items[2]))

\* the latest file's root gave a sample name, so parse_log read its content
FileRead == idx > 0 /\ "f" \in DOMAIN f

C13_MalformedNeverAborts ==
    (FileRead /\ \E k \in SectionKeys : Malformed(Get(f.f, k))) => pc # "raised"

(***************************************************************************)
(* C14.  Every entry of the base-quality detail table carries the          *)
(* section's status, and that status is the sample's BaseQuality value in  *)
(* the general statistics.                                                 *)
(***************************************************************************)
C14_BaseQualityCarriesStatus ==
    \A key \in DOMAIN self.vcpipe_basequality_data :
        /\ "status" \in DOMAIN self.vcpipe_basequality_data[key]
        /\ self.vcpipe_basequality_data[key]["status"] =
               self.general_stats_data[key]["BaseQuality"]

(***************************************************************************)
(* C15.  The general-stats header lists the section names in the order in  *)
(* which each was first parsed over the files so far; within a file the    *)
(* order is VcfQuality, LowCoverageRegions, BaseQuality.  A column is      *)
(* appended at most once and a later file neither removes nor reorders a   *)
(* column: the header after a file is the header before it followed by     *)
(* the file's sections that were not in it.                                *)
(***************************************************************************)
Cols(m) == [i \in DOMAIN m.general_stats_header |-> m.general_stats_header[i].col]

SectionOrder == <<"VcfQuality", "LowCoverageRegions", "BaseQuality">>

FirstSeen ==
    LET New(k) == Present(k) /\ k \notin Range(Cols(prev))
    IN  SelectSeq(SectionOrder, New)

C15_HeaderFirstSeenOrder ==
    /\ Ingested => Cols(self) = Cols(prev) \o FirstSeen
    /\ ~Ingested => self.general_stats_header = prev.general_stats_header
    /\ \A i, j \in DOMAIN Cols(self) : Cols(self)[i] = Cols(self)[j] => i = j

\* a second file brings a column before the first file's later column is seen again
C15_Witness ==
    /\ Ingested /\ idx = 2
    /\ Cols(prev) = <<"BaseQuality">>
    /\ Present("VcfQuality") /\ Present("BaseQuality")
    /\ Cols(self) = <<"BaseQuality", "VcfQuality">>

(***************************************************************************)
(* C16.  Over a finite set of discovered files whose paths carry the       *)
(* marker and whose bodies are well-formed the run terminates: the files   *)
(* are ingested one at a time in discovery order, each exactly once (a     *)
(* step either folds the next file whole or builds the outputs), and the   *)
(* outputs are built exactly once, after the last file, after which no     *)
(* step is taken.  The run can end otherwise only on a path without the    *)
(* marker.                                                                 *)
(***************************************************************************)
C16_RunTerminates ==
    /\ [](idx > 0 => f.fn = idx)
    /\ [](pc = "raised" => ~HasMarker(f.root))
    /\ []((pc = "done") <=> (outputs # <<>>))
    /\ [][ /\ pc = "loop"
           /\ \/ idx' = idx + 1 /\ f'.fn = idx' /\ pc' # "done" /\ outputs' = outputs
              \/ idx' = idx /\ pc' = "done" /\ self' = self /\ f' = f
                 /\ data_sources' = data_sources ]_vars
    /\ <>(pc = "done" \/ pc = "raised")

\* two files folded in discovery order and the outputs built after the second
C16_Witness ==
    /\ pc = "done" /\ idx = 2 /\ f.fn = 2
    /\ DictLen(self.general_stats_data) = 2
    /\ data_sources = {1, 2}
    /\ Len(outputs) = 7

(***************************************************************************)
(* C17.  Ingesting a file for a sample key, whatever sections it has,      *)
(* leaves the general-stats row and every detail-table entry of every      *)
(* other sample key as they were.                                          *)
(***************************************************************************)
\* the sample keys that an instance holds anything for
Keys(m) ==
    (DOMAIN m.general_stats_data) \cup (DOMAIN m.vcpipe_vcfquality_data)
    \cup (DOMAIN m.vcpipe_lowcoverage_data.depth)
    \cup (DOMAIN m.vcpipe_lowcoverage_data.size)
    \cup (DOMAIN m.vcpipe_basequality_data)

C17_OtherKeysUnchanged ==
    Ingested =>
        \A key \in (Keys(prev) \cup Keys(self)) \ {f.s_name} :
            /\ SameEntry(prev.general_stats_data, self.general_stats_data, key)
            /\ \A k \in SectionKeys : SameDetailEntry(prev, self, k, key)

\* a second file with all three sections, after a file of another sample that
\* left a row and entries in all detail tables
C17_Witness ==
    /\ Ingested /\ idx = 2
    /\ \A k \in SectionKeys : Present(k)
    /\ HasFailed /\ Failed # <<>>
    /\ \E key \in Keys(prev) \ {f.s_name} :
           /\ DOMAIN prev.general_stats_data[key] = SectionKeys
           /\ key \in DOMAIN self.vcpipe_vcfquality_data
           /\ key \in DOMAIN self.vcpipe_lowcoverage_data.depth
           /\ key \in DOMAIN self.vcpipe_basequality_data

(***************************************************************************)
(* C18.  The sample keys of the general statistics are the sample keys of  *)
(* the files ingested so far: the first file of a key gets a row, empty    *)
(* when the file has no section.  Every key of a detail table is a         *)
(* general-stats key whose row holds the table's column, and every column  *)
(* of a row is in the header.                                              *)
(***************************************************************************)
C18_KeySets ==
    /\ DOMAIN self.general_stats_data = self.vcpipe_seen
    /\ DOMAIN self.general_stats_data =
           IF Ingested THEN (DOMAIN prev.general_stats_data) \cup {f.s_name}
           ELSE DOMAIN prev.general_stats_data
    /\ \A k \in SectionKeys :
           \A key \in UNION {DOMAIN Detail(self, k)[t] : t \in DOMAIN Detail(self, k)} :
               /\ key \in DOMAIN self.general_stats_data
               /\ k \in DOMAIN self.general_stats_data[key]
    /\ \A key \in DOMAIN self.general_stats_data :
           DOMAIN self.general_stats_data[key] \subseteq Range(Cols(self))

\* a first-seen sample whose file has no section: an empty row, nothing registered
C18_Witness ==
    /\ Ingested /\ idx = 2
    /\ f.s_name \notin DOMAIN prev.general_stats_data
    /\ \A k \in SectionKeys : ~Present(k)
    /\ self.general_stats_data[f.s_name] = EmptyDict
    /\ n = 0
    /\ f.fn \notin data_sources
    /\ DictLen(self.vcpipe_basequality_data) = 1

(***************************************************************************)
(* C19.  The depth map and the size map of the low-coverage data have the  *)
(* same sample keys, and for each key the depth counts and the size counts *)
(* add up to the same number: the number of failed regions of the last     *)
(* file of that key that carried a failed list.                            *)
(***************************************************************************)
RECURSIVE SumOver(_, _)
SumOver(d, keys) ==
    IF keys = {} THEN 0
    ELSE LET k == CHOOSE x \in keys : TRUE
         IN  d[k] + SumOver(d, keys \ {k})

Total(d) == SumOver(d, DOMAIN d)

C19_DepthSizeAgree ==
    LET depth == self.vcpipe_lowcoverage_data.depth
        size == self.vcpipe_lowcoverage_data.size
    IN  /\ DOMAIN depth = DOMAIN size
        /\ \A key \in DOMAIN depth : Total(depth[key]) = Total(size[key])
        /\ \A key \in DOMAIN depth :
               IF Ingested /\ key = f.s_name /\ HasFailed
               THEN Total(depth[key]) = Len(Failed)
               ELSE /\ key \in DOMAIN prev.vcpipe_lowcoverage_data.depth
                    /\ depth[key] = prev.vcpipe_lowcoverage_data.depth[key]
                    /\ size[key] = prev.vcpipe_lowcoverage_data.size[key]

\* a key's counts of three regions are replaced by a later file's empty list
C19_Witness ==
    /\ Ingested /\ idx = 2 /\ Duplicate
    /\ HasFailed /\ Failed = <<>>
    /\ f.s_name \in DOMAIN prev.vcpipe_lowcoverage_data.depth
    /\ Total(prev.vcpipe_lowcoverage_data.depth[f.s_name]) = 3
    /\ Total(prev.vcpipe_lowcoverage_data.size[f.s_name]) = 3
    /\ Total(self.vcpipe_lowcoverage_data.depth[f.s_name]) = 0

(***************************************************************************)
(* C20.  Two files of distinct sample keys give the same general-stats     *)
(* rows, detail tables and registered data sources in both processing      *)
(* orders; only the order of the header may differ.  Two files of one      *)
(* sample key that both carry VcfQuality (or BaseQuality) with different   *)
(* values give different detail entries in the two orders.                 *)
(***************************************************************************)
C20_OrderIndependent ==
    (call.op = "orders" /\ call.done) =>
        LET file1 == call.files[1]
            file2 == call.files[2]
            other == call.other
        IN  /\ file1.s_name # file2.s_name =>
                   /\ self.general_stats_data = other.self.general_stats_data
                   /\ self.vcpipe_vcfquality_data = other.self.vcpipe_vcfquality_data
                   /\ self.vcpipe_lowcoverage_data = other.self.vcpipe_lowcoverage_data
                   /\ self.vcpipe_basequality_data = other.self.vcpipe_basequality_data
                   /\ self.vcpipe_seen = other.self.vcpipe_seen
                   /\ data_sources = other.sources
                   /\ Range(Cols(self)) = Range(Cols(other.self))
            /\ file1.s_name = file2.s_name =>
                   \A k \in {"VcfQuality", "BaseQuality"} :
                       ( /\ Get(file1.f, k) # None
                         /\ Get(file2.f, k) # None
                         /\ file1.f[k] # file2.f[k] ) =>
                           Detail(self, k).t[file1.s_name] # Detail(other.self, k).t[file1.s_name]

\* distinct keys, both files registered, and the two orders differ in the header
C20_Witness ==
    /\ call.op = "orders" /\ call.done
    /\ call.files[1].s_name # call.files[2].s_name
    /\ data_sources = {1, 2}
    /\ DictLen(self.vcpipe_vcfquality_data) = 1
    /\ DictLen(self.vcpipe_basequality_data) = 1
    /\ DictLen(self.vcpipe_lowcoverage_data.depth) = 2
    /\ Cols(self) # Cols(call.other.self)

====
